---- MODULE Spec2Model ----
(***************************************************************************)
(* Model of app.py: read a table, turn it into {Key, Attributes} items,    *)
(* post the items 100 at a time to /additems, then validate the remote     *)
(* collection (/getcollectiondetails, /getitem for first and last row).    *)
(*                                                                         *)
(* Python values are modelled as records [k, s, n]:                        *)
(*   k = "str"   : s is the text, a sequence of one-character strings      *)
(*   k = "int"   : n is the integer                                        *)
(*   k = "float" : n is the value in hundredths (505 is 5.05)              *)
(* Only non-negative numbers with at most two decimals are drawn.          *)
(***************************************************************************)
EXTENDS Integers, Sequences, FiniteSets, TLC

VARIABLES
    pc,                 \* position of main / of the function being run
    nrows,              \* number of rows of the source table (df_data['data'])
    fields,             \* df_data['schema']['fields'], the list object that
                        \* get_data_items also returns as data_items['fields']
    data,               \* data_items['data'] (items_list)
    token,              \* access token returned by auth
    i,                  \* loop variable of populate_data
    req,                \* request of the attempt_request call in progress
    resp,               \* last response received by attempt_request
    caller,             \* who called attempt_request
    add_log,            \* Items of every /additems call, in call order
    add_resps,          \* response returned by every /additems call
    val_log,            \* every validation call (url, Key), in call order
    collection_details, \* local of validate_collection_metadata
    first_row_resp,     \* local of validate_first_last_rows
    last_row_resp,      \* local of validate_first_last_rows
    error,              \* the exception that ended the run, None if none
    result,             \* what the last call of compare_rows returned
    retried,            \* the last call of attempt_request, in progress or
                        \* over, has slept and posted its request again
    store               \* the items the remote collection holds, in order of
                        \* first arrival

vars == <<pc, nrows, fields, data, token, i, req, resp, caller, add_log,
          add_resps, val_log, collection_details, first_row_resp,
          last_row_resp, error, result, retried, store>>

\* ------------------------------------------------------------------ bounds
MaxRecords == 201       \* largest source table drawn

\* ------------------------------------------------------ Python primitives
None == [none |-> TRUE]

PyStr(s) == [k |-> "str", s |-> s, n |-> 0]
PyInt(n) == [k |-> "int", s |-> <<>>, n |-> n]
PyFloat(h) == [k |-> "float", s |-> <<>>, n |-> h]

Digit(d) == <<"0", "1", "2", "3", "4", "5", "6", "7", "8", "9">>[d + 1]

RECURSIVE IntStr(_)
\* str(n) of a non-negative int
IntStr(n) == IF n < 10 THEN <<Digit(n)>> ELSE IntStr(n \div 10) \o <<Digit(n % 10)>>

\* repr of a non-negative float with at most two decimals: 5.0, 5.5, 5.05
FloatStr(h) ==
    LET ip == h \div 100
        fr == h % 100
    IN  IntStr(ip) \o <<".">> \o
        (IF fr % 10 = 0 THEN <<Digit(fr \div 10)>>
                        ELSE <<Digit(fr \div 10), Digit(fr % 10)>>)

\* str(v)
Str(v) ==
    CASE v.k = "str" -> v.s
      [] v.k = "int" -> IntStr(v.n)
      [] v.k = "float" -> FloatStr(v.n)

\* sub in s  (substring test on character sequences)
Contains(s, sub) ==
    \E j \in 1..(Len(s) - Len(sub) + 1) : SubSeq(s, j, j + Len(sub) - 1) = sub

EndsWith(s, sub) ==
    /\ Len(s) >= Len(sub)
    /\ SubSeq(s, Len(s) - Len(sub) + 1, Len(s)) = sub

IsDigit(c) == c \in {"0", "1", "2", "3", "4", "5", "6", "7", "8", "9"}

DigitVal(c) == CHOOSE d \in 0..9 : Digit(d) = c

RECURSIVE ParseInt(_)
ParseInt(s) == IF Len(s) = 0 THEN 0
               ELSE 10 * ParseInt(SubSeq(s, 1, Len(s) - 1)) + DigitVal(s[Len(s)])

\* int(v) raises ValueError on text that is not an integer literal
IntRaises(v) == v.k = "str" /\ (Len(v.s) = 0 \/ \E j \in 1..Len(v.s) : ~IsDigit(v.s[j]))

\* int(v) where it does not raise: floats are truncated
IntOf(v) ==
    CASE v.k = "int" -> v.n
      [] v.k = "float" -> v.n \div 100
      [] v.k = "str" -> ParseInt(v.s)

\* s.split('T')[0]: the text before the first 'T', all of it if there is none
SplitT0(s) ==
    IF \E j \in 1..Len(s) : s[j] = "T"
    THEN LET p == CHOOSE j \in 1..Len(s) : s[j] = "T" /\ \A q \in 1..(j - 1) : s[q] # "T"
         IN  SubSeq(s, 1, p - 1)
    ELSE s

\* data_list[lo:hi] (0-based, hi exclusive, clipped to the list)
Slice(list, lo, hi) ==
    LET h == IF hi > Len(list) THEN Len(list) ELSE hi
    IN  IF lo >= h THEN <<>> ELSE SubSeq(list, lo + 1, h)

\* ------------------------------------------------------- the source table
\* df_data as json.loads(df.to_json(orient='table')) delivers it: the schema
\* fields start with the index column, which is the primary key; the rows
\* are numbered 1..nrows by df.index.
PrimaryKey == "index"

Schemas ==
    { << [name |-> "index", type |-> "integer"],
         [name |-> "Profit", type |-> "number"],
         [name |-> "Date", type |-> "datetime"] >>,
      << [name |-> "index", type |-> "integer"],
         [name |-> "Country", type |-> "string"],
         [name |-> "UnitsSold", type |-> "integer"] >> }

\* the cell of row r (1-based) in the named column
SourceCell(r, name) ==
    CASE name = "index" -> PyInt(r)
      [] name = "Profit" -> PyFloat(<<500, 505, 1050, 0>>[(r % 4) + 1])
      [] name = "Date" -> PyStr(<<"D", Digit(r % 3), "T", "0">>)
      [] name = "Country" -> PyStr(IF r % 2 = 0 THEN <<>> ELSE <<"U", "S">>)
      [] name = "UnitsSold" -> PyInt(r % 7)

\* ---------------------------------------------------------- get_data_items
RECURSIVE FieldLoop(_, _, _, _)
\* the loop over the schema fields for one row; flds is the schema list,
\* whose datetime entries the loop rewrites in place
FieldLoop(r, flds, j, item) ==
    IF j > Len(flds) THEN [item |-> item, fields |-> flds]
    ELSE LET field == flds[j]
             cell_value == SourceCell(r, field.name)
         IN  IF field.name = PrimaryKey
             THEN FieldLoop(r, flds, j + 1, [item EXCEPT !.Key = Str(cell_value)])
             ELSE LET field2 == IF field.type = "datetime"
                                THEN [field EXCEPT !.type = "date"] ELSE field
                      row_data == [Name |-> field2.name, Type |-> field2.type,
                                   Value |-> cell_value]
                  IN  FieldLoop(r, [flds EXCEPT ![j] = field2], j + 1,
                                [item EXCEPT !.Attributes = Append(@, row_data)])

RECURSIVE RowLoop(_, _, _)
\* the loop over the rows lo..hi in row order, the schema list handed from
\* each row to the next (evaluated by halves to keep the nesting shallow)
RowLoop(lo, hi, flds) ==
    IF lo > hi THEN [data |-> <<>>, fields |-> flds]
    ELSE IF lo = hi
    THEN LET out == FieldLoop(lo, flds, 1, [Key |-> <<>>, Attributes |-> <<>>])
         IN  [data |-> <<out.item>>, fields |-> out.fields]
    ELSE LET mid == (lo + hi) \div 2
             left == RowLoop(lo, mid, flds)
             right == RowLoop(mid + 1, hi, left.fields)
         IN  [data |-> left.data \o right.data, fields |-> right.fields]

\* the row loop started at the second row
get_data_items_skipfirst(n, flds) == RowLoop(2, n, flds)

\* items_list and the schema list as the function leaves them
get_data_items(n, flds) == RowLoop(1, n, flds)

\* -------------------------------------------------------------- requests
Collection == "test_collection"

AccessDenied == [Message |-> "Access Denied"]
ErrorResponse == [Message |-> "Internal Server Error"]

\* the check that never reports a denial
request_denied_check_never(response) == FALSE

request_denied_check_always(response) == TRUE

request_denied_check(response) ==
    /\ "Message" \in DOMAIN response
    /\ response.Message = "Access Denied"

get_data_header(collection, items) == [CollectionName |-> collection, Items |-> items]

BatchSize == 100

\* the slice one record short: data_list[i:i+99]
to_submit_short(data_list, lo) == Slice(data_list, lo, lo + BatchSize - 1)

\* data_list[i:i+100]
to_submit(data_list, lo) == Slice(data_list, lo, lo + BatchSize)

\* range(0, len(data_list)+1, 100) still has the value lo
InRange(data_list, lo) == lo < Len(data_list) + 1

\* ------------------------------------------- validate_collection_metadata
CountMessage(count, rows) ==
    <<"Collection Item Count (", count, ") does not match Data Row Count (", rows, ")">>

FieldMessage(item_field) ==
    <<"Not all Item Fields (", item_field, ") populated into Collection Fields">>

\* the inner loop without the comparison of the types
FieldMatchNameOnly(item_field, coll_fields) ==
    \E c \in 1..Len(coll_fields) : item_field.name = coll_fields[c].Name

\* the inner loop: some collection field has the item field's name and type
FieldMatch(item_field, coll_fields) ==
    \E c \in 1..Len(coll_fields) :
        /\ item_field.name = coll_fields[c].Name
        /\ item_field.type = coll_fields[c].Type

RECURSIVE MetaFieldLoop(_, _, _)
\* the loop over data_items['fields'] from position j on; flds is the list
\* object, whose datetime entries the loop rewrites in place
MetaFieldLoop(flds, coll_fields, j) ==
    IF j > Len(flds) THEN [ok |-> TRUE, msg |-> <<>>, fields |-> flds]
    ELSE IF flds[j].name = "index" THEN MetaFieldLoop(flds, coll_fields, j + 1)
    ELSE LET item_field == IF flds[j].type = "datetime"
                           THEN [flds[j] EXCEPT !.type = "date"] ELSE flds[j]
             flds2 == [flds EXCEPT ![j] = item_field]
         IN  IF FieldMatch(item_field, coll_fields)
             THEN MetaFieldLoop(flds2, coll_fields, j + 1)
             ELSE [ok |-> FALSE, msg |-> FieldMessage(item_field), fields |-> flds2]

\* the count check with < in place of !=
validate_collection_metadata_lt(details, flds, data_list) ==
    IF details.Count < Len(data_list)
    THEN [ok |-> FALSE, msg |-> CountMessage(details.Count, Len(data_list)),
          fields |-> flds]
    ELSE MetaFieldLoop(flds, details.Fields, 1)

\* the part of validate_collection_metadata after the request has returned:
\* ok is "returned True", msg the string returned otherwise, fields the
\* field list as the function leaves it
validate_collection_metadata(details, flds, data_list) ==
    IF details.Count # Len(data_list)
    THEN [ok |-> FALSE, msg |-> CountMessage(details.Count, Len(data_list)),
          fields |-> flds]
    ELSE MetaFieldLoop(flds, details.Fields, 1)

\* ------------------------------------------------------------ compare_rows
\* the loop body without the comparison of the types
AttrCompareAnyType(item_attr, coll_attr) ==
    IF item_attr.Name = coll_attr.Name /\ Str(item_attr.Value) = Str(coll_attr.Value)
    THEN "match" ELSE "nomatch"

\* the loop body without the special cases for dates and numbers
AttrCompareExact(item_attr, coll_attr) ==
    IF /\ item_attr.Name = coll_attr.Name
       /\ item_attr.Type = coll_attr.Type
       /\ Str(item_attr.Value) = Str(coll_attr.Value)
    THEN "match" ELSE "nomatch"

\* one pass of the inner loop body: "match" sets match = True, "nomatch"
\* leaves it, anything else is the exception the body raises
AttrCompare(item_attr, coll_attr) ==
    IF item_attr.Name = coll_attr.Name /\ item_attr.Type = coll_attr.Type
    THEN IF Str(item_attr.Value) = Str(coll_attr.Value) THEN "match"
         ELSE IF item_attr.Type = "date"
         THEN IF item_attr.Value.k # "str" \/ coll_attr.Value.k # "str"
              THEN "AttributeError"
              ELSE IF SplitT0(item_attr.Value.s) = SplitT0(coll_attr.Value.s)
                   THEN "match" ELSE "nomatch"
         ELSE IF Contains(Str(item_attr.Value), <<".", "0">>) /\ item_attr.Type = "number"
         THEN IF IntRaises(item_attr.Value) \/ IntRaises(coll_attr.Value)
              THEN "ValueError"
              ELSE IF IntOf(item_attr.Value) = IntOf(coll_attr.Value)
                   THEN "match" ELSE "nomatch"
         ELSE "nomatch"
    ELSE "nomatch"

RECURSIVE CollLoop(_, _, _, _)
\* the loop over response['Item']['Attributes'] for one item attribute; it
\* has no break, so it visits every collection attribute
CollLoop(item_attr, coll_attrs, c, match) ==
    IF c > Len(coll_attrs) THEN (IF match THEN "True" ELSE "False")
    ELSE LET r == AttrCompare(item_attr, coll_attrs[c])
         IN  IF r \notin {"match", "nomatch"} THEN r
             ELSE CollLoop(item_attr, coll_attrs, c + 1, match \/ r = "match")

RECURSIVE ItemLoop(_, _, _)
\* the loop over item_row['Attributes']
ItemLoop(item_attrs, coll_attrs, a) ==
    IF a > Len(item_attrs) THEN "True"
    ELSE LET r == CollLoop(item_attrs[a], coll_attrs, 1, FALSE)
         IN  IF r = "True" THEN ItemLoop(item_attrs, coll_attrs, a + 1) ELSE r

\* compare_rows without the test of ItemFound: a response that carries no
\* Item is a KeyError
compare_rows_nofound(item_row, response) ==
    IF "Item" \notin DOMAIN response THEN "KeyError"
    ELSE ItemLoop(item_row.Attributes, response.Item.Attributes, 1)

\* "True", "False", or the name of the exception raised
compare_rows(item_row, response) ==
    IF "ItemFound" \notin DOMAIN response THEN "KeyError"
    ELSE IF response.ItemFound # TRUE THEN "False"
    ELSE ItemLoop(item_row.Attributes, response.Item.Attributes, 1)

\* ----------------------------------------------------- the remote store
\* What the remote end may answer.  Every endpoint may answer Access Denied
\* or a JSON error body; the rest depends on the endpoint.
AuthResponses == {[accesstoken |-> "token"], [Message |-> "Invalid credentials"]}

NonIndex(flds) == SelectSeq(flds, LAMBDA f : f.name # "index")

RemoteField(f) == [Name |-> f.name, Type |-> IF f.type = "datetime" THEN "date" ELSE f.type]

\* the field list of a collection that holds the dataset
RemoteExact(flds) == [c \in 1..Len(NonIndex(flds)) |-> RemoteField(NonIndex(flds)[c])]

RemoteFieldLists(flds) ==
    LET ex == RemoteExact(flds)
    IN  { ex,
          SubSeq(ex, 1, Len(ex) - 1),
          [ex EXCEPT ![1] = [@ EXCEPT !.Type = "boolean"]],
          <<>> }

RemoteCounts(n) == {n, n + 1} \cup (IF n > 0 THEN {n - 1} ELSE {})

DetailsResponses(flds, n) ==
    {[Count |-> c, Fields |-> F] : c \in RemoteCounts(n), F \in RemoteFieldLists(flds)}

Found(attrs) == [ItemFound |-> TRUE, Item |-> [Attributes |-> attrs]]

\* the store's own formatting: 5.0 is returned as 5, a date gets a time of day
Reformat(attr) ==
    CASE attr.Value.k = "float" /\ attr.Value.n % 100 = 0 ->
            [attr EXCEPT !.Value = PyInt(attr.Value.n \div 100)]
      [] attr.Type = "date" /\ attr.Value.k = "str" ->
            [attr EXCEPT !.Value = PyStr(SplitT0(attr.Value.s) \o <<"T", "8">>)]
      [] OTHER -> attr

\* a store that dropped the decimals of every number
Truncate(attr) ==
    IF attr.Value.k = "float" THEN [attr EXCEPT !.Value = PyInt(attr.Value.n \div 100)]
    ELSE attr

\* a store that holds another value
Change(attr) ==
    CASE attr.Value.k = "str" -> [attr EXCEPT !.Value = PyStr(<<"X">> \o attr.Value.s)]
      [] attr.Value.k = "int" -> [attr EXCEPT !.Value = PyInt(attr.Value.n + 1)]
      [] attr.Value.k = "float" -> [attr EXCEPT !.Value = PyFloat(attr.Value.n + 100)]

ExtraAttr == [Name |-> "Segment", Type |-> "string", Value |-> PyStr(<<"G">>)]

ItemResponses(item) ==
    LET at == item.Attributes
    IN  { [ItemFound |-> FALSE],
          Found(at),
          Found([c \in 1..Len(at) |-> Reformat(at[c])]),
          Found([c \in 1..Len(at) |-> Truncate(at[c])]),
          Found([c \in 1..Len(at) |-> IF c = Len(at) THEN Change(at[c]) ELSE at[c]]),
          Found(at \o <<ExtraAttr>>),
          Found(<<>>) }

AddItemsOK == [Status |-> "Success"]

\* the collection after it has taken in the items of one request: an item
\* whose key is held replaces the one held, the others are appended; of
\* several items with one key the last counts
Upsert(held, items) ==
    LET keys == {items[j].Key : j \in 1..Len(items)}
        heldkeys == {held[k].Key : k \in 1..Len(held)}
        last(key) == CHOOSE j \in 1..Len(items) :
                        /\ items[j].Key = key
                        /\ \A q \in (j + 1)..Len(items) : items[q].Key # key
        fresh == SelectSeq([j \in 1..Len(items) |-> j],
                           LAMBDA j : /\ items[j].Key \notin heldkeys
                                      /\ last(items[j].Key) = j)
    IN  [k \in 1..Len(held) |->
            IF held[k].Key \in keys THEN items[last(held[k].Key)] ELSE held[k]]
        \o [k \in 1..Len(fresh) |-> items[fresh[k]]]

\* the collection after the remote end has answered one request: it takes
\* in the items of an /additems request it answers with success, and nothing
\* when it answers Access Denied or an error
StoreApply(held, request, response) ==
    IF request.url = "/additems" /\ response = AddItemsOK
    THEN Upsert(held, request.data.Items)
    ELSE held

\* the JSON bodies the remote end may answer to request r
ServerResponses(r, who, flds, data_list) ==
    {AccessDenied, ErrorResponse} \cup
    CASE r.url = "/additems" -> {AddItemsOK}
      [] r.url = "/getcollectiondetails" -> DetailsResponses(flds, Len(data_list))
      [] r.url = "/getitem" ->
            ItemResponses(IF who = "first" THEN data_list[1]
                          ELSE data_list[Len(data_list)])

\* ------------------------------------------------------------------- state
Init ==
    /\ pc = "start"
    /\ nrows \in 0..MaxRecords
    /\ fields \in Schemas
    /\ data = <<>>
    /\ token = ""
    /\ i = 0
    /\ req = None
    /\ resp = None
    /\ caller = "none"
    /\ add_log = <<>>
    /\ add_resps = <<>>
    /\ val_log = <<>>
    /\ collection_details = None
    /\ first_row_resp = None
    /\ last_row_resp = None
    /\ error = None
    /\ result = None
    /\ retried = FALSE
    /\ store = <<>>

Exception(name, args) == [exc |-> name, args |-> args]

\* main, line 17: data_items = get_data_items(...)
GetDataItems ==
    /\ pc = "start"
    /\ LET out == get_data_items(nrows, fields)
       IN  /\ data' = out.data
           /\ fields' = out.fields
    /\ pc' = "auth"
    /\ UNCHANGED <<retried, store, result, nrows, token, i, req, resp, caller, add_log, add_resps, val_log,
                   collection_details, first_row_resp, last_row_resp, error>>

\* main, line 21: token = auth(...); a body without 'accesstoken' is a KeyError
Auth ==
    /\ pc = "auth"
    /\ \E auth_response \in AuthResponses :
          IF "accesstoken" \in DOMAIN auth_response
          THEN /\ token' = auth_response.accesstoken
               /\ pc' = "populate"
               /\ error' = error
          ELSE /\ token' = token
               /\ pc' = "failed"
               /\ error' = Exception("KeyError", <<"accesstoken">>)
    /\ i' = 0
    /\ UNCHANGED <<retried, store, result, nrows, fields, data, req, resp, caller, add_log, add_resps,
                   val_log, collection_details, first_row_resp, last_row_resp>>

Bearer(t) == <<"Bearer ", t>>

\* populate_data: one iteration of the for loop up to the first post of
\* attempt_request
PopulateSubmit ==
    /\ pc = "populate"
    /\ InRange(data, i)
    /\ req' = [url |-> "/additems",
               headers |-> [ContentType |-> "application/json",
                            Authorization |-> Bearer(token)],
               data |-> get_data_header(Collection, to_submit(data, i))]
    /\ add_log' = Append(add_log, to_submit(data, i))
    /\ caller' = "populate"
    /\ resp' = None
    /\ pc' = "post"
    /\ retried' = FALSE
    /\ UNCHANGED <<store, result, nrows, fields, data, token, i, add_resps, val_log,
                   collection_details, first_row_resp, last_row_resp, error>>

\* populate_data: the range is exhausted, main goes on to validate_population
PopulateDone ==
    /\ pc = "populate"
    /\ ~InRange(data, i)
    /\ pc' = "validate"
    /\ UNCHANGED <<retried, store, result, nrows, fields, data, token, i, req, resp, caller, add_log,
                   add_resps, val_log, collection_details, first_row_resp,
                   last_row_resp, error>>

\* attempt_request: requests.post(...).json() delivers a JSON body
Post ==
    /\ pc = "post"
    /\ pc' = "check"
    /\ \E r \in ServerResponses(req, caller, fields, data) :
          /\ resp' = r
          /\ store' = StoreApply(store, req, r)
    /\ UNCHANGED <<retried, result, nrows, fields, data, token, i, req, caller, add_log, add_resps,
                   val_log, collection_details, first_row_resp, last_row_resp, error>>

\* attempt_request: requests.post or .json() raises (no connection, no JSON)
PostRaises ==
    /\ pc = "post"
    /\ pc' = "failed"
    /\ error' = Exception("RequestException", <<req.url>>)
    /\ UNCHANGED <<retried, store, result, nrows, fields, data, token, i, req, resp, caller, add_log,
                   add_resps, val_log, collection_details, first_row_resp,
                   last_row_resp>>

\* attempt_request: the while loop sleeps a second and posts the request again
Retry ==
    /\ pc = "check"
    /\ request_denied_check(resp)
    /\ pc' = "post"
    /\ retried' = TRUE
    /\ UNCHANGED <<store, result, nrows, fields, data, token, i, req, resp, caller, add_log,
                   add_resps, val_log, collection_details, first_row_resp,
                   last_row_resp, error>>

\* attempt_request returns to populate_data, which drops the response and
\* steps the loop
ReturnAddItems ==
    /\ pc = "check"
    /\ ~request_denied_check(resp)
    /\ caller = "populate"
    /\ add_resps' = Append(add_resps, resp)
    /\ i' = i + BatchSize
    /\ pc' = "populate"
    /\ req' = None
    /\ resp' = None
    /\ caller' = "none"
    /\ UNCHANGED <<retried, store, result, nrows, fields, data, token, add_log, val_log,
                   collection_details, first_row_resp, last_row_resp, error>>

\* ---------------------------------------------------- validate_population
ValidationHeaders == [Authorization |-> Bearer(token)]

\* validate_population calls validate_collection_metadata, which posts
\* /getcollectiondetails
ValidateStart ==
    /\ pc = "validate"
    /\ req' = [url |-> "/getcollectiondetails", headers |-> ValidationHeaders,
               data |-> [CollectionName |-> Collection]]
    /\ val_log' = Append(val_log, [url |-> "/getcollectiondetails",
                                   data |-> [CollectionName |-> Collection]])
    /\ caller' = "metadata"
    /\ resp' = None
    /\ pc' = "post"
    /\ retried' = FALSE
    /\ UNCHANGED <<store, result, nrows, fields, data, token, i, add_log, add_resps,
                   collection_details, first_row_resp, last_row_resp, error>>

\* raise e: the run ends
Raise(e) ==
    /\ pc' = "failed"
    /\ error' = e
    /\ req' = None
    /\ resp' = None
    /\ caller' = "none"
    /\ val_log' = val_log
    /\ retried' = retried

\* attempt_request(f"{url}/getitem", headers, row_req) up to its first post
GetItem(row, flds, who) ==
    LET field_name_list == [c \in 1..Len(flds) |-> flds[c].name]
        row_req == [CollectionName |-> Collection, Attributes |-> field_name_list,
                    Key |-> row.Key]
    IN  /\ req' = [url |-> "/getitem", headers |-> ValidationHeaders, data |-> row_req]
        /\ val_log' = Append(val_log, [url |-> "/getitem", data |-> row_req])
        /\ caller' = who
        /\ resp' = None
        /\ pc' = "post"
        /\ error' = error
        /\ retried' = FALSE

\* validate_collection_metadata from the return of its request on, the
\* check of its result in validate_population, and validate_first_last_rows
\* up to its first request
ReturnMetadata ==
    /\ pc = "check"
    /\ ~request_denied_check(resp)
    /\ caller = "metadata"
    /\ collection_details' = resp
    /\ IF "Count" \notin DOMAIN resp
       THEN /\ Raise(Exception("KeyError", <<"Count">>))
            /\ fields' = fields
       ELSE LET out == validate_collection_metadata(resp, fields, data)
            IN  /\ fields' = out.fields
                /\ IF ~out.ok THEN Raise(Exception("Exception", out.msg))
                   ELSE IF Len(data) = 0
                   THEN Raise(Exception("IndexError", <<"list index out of range">>))
                   ELSE GetItem(data[1], out.fields, "first")
    /\ UNCHANGED <<store, result, nrows, data, token, i, add_log, add_resps, first_row_resp,
                   last_row_resp>>

\* the result of compare_rows tested against None instead of False
RowFailedNever(r) == r = "None"

\* compare_rows(...) == False
RowFailed(r) == r = "False"

\* validate_first_last_rows from the return of the first /getitem on
ReturnFirst ==
    /\ pc = "check"
    /\ ~request_denied_check(resp)
    /\ caller = "first"
    /\ first_row_resp' = resp
    /\ result' = compare_rows(data[1], resp)
    /\ LET r == compare_rows(data[1], resp)
       IN  IF r \notin {"True", "False"} THEN Raise(Exception(r, <<>>))
           ELSE IF RowFailed(r)
           THEN Raise(Exception("Exception", <<"First row validation did not pass">>))
           ELSE GetItem(data[Len(data)], fields, "last")
    /\ UNCHANGED <<store, nrows, fields, data, token, i, add_log, add_resps,
                   collection_details, last_row_resp>>

\* validate_first_last_rows from the return of the last /getitem on, and
\* main's last print
ReturnLast ==
    /\ pc = "check"
    /\ ~request_denied_check(resp)
    /\ caller = "last"
    /\ last_row_resp' = resp
    /\ result' = compare_rows(data[Len(data)], resp)
    /\ LET r == compare_rows(data[Len(data)], resp)
       IN  IF r \notin {"True", "False"} THEN Raise(Exception(r, <<>>))
           ELSE IF RowFailed(r)
           THEN Raise(Exception("Exception", <<"Last row validation did not pass">>))
           ELSE /\ pc' = "done"
                /\ req' = None
                /\ resp' = None
                /\ caller' = "none"
                /\ UNCHANGED <<val_log, error, retried>>
    /\ UNCHANGED <<store, nrows, fields, data, token, i, add_log, add_resps,
                   collection_details, first_row_resp>>

Next ==
    \/ GetDataItems
    \/ Auth
    \/ PopulateSubmit
    \/ PopulateDone
    \/ Post
    \/ PostRaises
    \/ Retry
    \/ ReturnAddItems
    \/ ValidateStart
    \/ ReturnMetadata
    \/ ReturnFirst
    \/ ReturnLast

Spec == Init /\ [][Next]_vars

\* the run ends when the remote end lets it: every step that can be taken is
\* taken eventually (a single thread that is never suspended for ever)
MaxFairRecords == 2     \* largest source table drawn for the fair runs

FairInit == Init /\ nrows <= MaxFairRecords

FairSpec == FairInit /\ [][Next]_vars /\ WF_vars(Next)

\* requests.post returns an answer other than Access Denied
PostAnswered ==
    /\ Post
    /\ ~("Message" \in DOMAIN resp' /\ resp'.Message = "Access Denied")

\* the runs in which each step is eventually taken and the remote end,
\* asked again and again, does not answer Access Denied for ever
LiveSpec == FairInit /\ [][Next]_vars /\ WF_vars(Next) /\ SF_vars(PostAnswered)

\* --------------------------------------------- compare_rows on its own
\* compare_rows applied to rows and /getitem responses drawn from small sets
CmpLocalAttrs ==
    {[Name |-> "Profit", Type |-> "number", Value |-> PyFloat(h)] :
        h \in {500, 505, 1000, 1050}}
    \cup {[Name |-> "Country", Type |-> "string", Value |-> PyStr(<<"U", "S">>)],
          [Name |-> "Date", Type |-> "date", Value |-> PyStr(<<"D", "1", "T", "0">>)]}

CmpRemoteAttrs ==
    {[Name |-> "Profit", Type |-> t, Value |-> v] :
        t \in {"number", "string"},
        v \in {PyInt(5), PyInt(10), PyFloat(500), PyFloat(505), PyFloat(1050),
               PyStr(<<"5">>)}}
    \cup {[Name |-> "Country", Type |-> "string", Value |-> PyStr(<<"U", "S">>)],
          [Name |-> "Country", Type |-> "string", Value |-> PyStr(<<"U", "K">>)],
          [Name |-> "Date", Type |-> "date", Value |-> PyStr(<<"D", "1", "T", "8">>)],
          [Name |-> "Date", Type |-> "date", Value |-> PyStr(<<"D", "2", "T", "0">>)],
          ExtraAttr}

MaxCmpAttrs == 2        \* most attributes in a row or an item drawn

SeqsUpTo(S, n) == UNION {[1..m -> S] : m \in 0..n}

DistinctNames(attrs) ==
    \A a, b \in 1..Len(attrs) : attrs[a].Name = attrs[b].Name => a = b

CmpRows ==
    {[Key |-> <<"1">>, Attributes |-> at] :
        at \in {x \in SeqsUpTo(CmpLocalAttrs, MaxCmpAttrs) : Len(x) > 0 /\ DistinctNames(x)}}

CmpResponses ==
    {[ItemFound |-> FALSE]} \cup {Found(at) : at \in SeqsUpTo(CmpRemoteAttrs, MaxCmpAttrs)}

InitCmp ==
    /\ pc = "compare"
    /\ nrows = 1
    /\ fields = <<>>
    /\ data \in {<<row>> : row \in CmpRows}
    /\ token = ""
    /\ i = 0
    /\ req = None
    /\ resp \in CmpResponses
    /\ caller = "none"
    /\ add_log = <<>>
    /\ add_resps = <<>>
    /\ val_log = <<>>
    /\ collection_details = None
    /\ first_row_resp = None
    /\ last_row_resp = None
    /\ error = None
    /\ result = None
    /\ retried = FALSE
    /\ store = <<>>

CompareRows ==
    /\ pc = "compare"
    /\ result' = compare_rows(data[1], resp)
    /\ pc' = "compared"
    /\ UNCHANGED <<retried, store, nrows, fields, data, token, i, req, resp, caller, add_log,
                   add_resps, val_log, collection_details, first_row_resp,
                   last_row_resp, error>>

NextCmp == CompareRows

SpecCmp == InitCmp /\ [][NextCmp]_vars

\* ------------------------------------------------------------- properties
RECURSIVE Flatten(_)
\* the batches of a log concatenated in order
Flatten(log) == IF Len(log) = 0 THEN <<>> ELSE Flatten(SubSeq(log, 1, Len(log) - 1)) \o log[Len(log)]

\* populate_data has returned
PopulateReturned == pc = "validate" \/ val_log # <<>>

\* C1: the Items lists of the /additems calls, concatenated in call order,
\* are at every moment a prefix of the record sequence, and once
\* populate_data has returned they are the record sequence itself.
C1_BatchesConcatenateToRecords ==
    /\ Len(Flatten(add_log)) <= Len(data)
    /\ Flatten(add_log) = SubSeq(data, 1, Len(Flatten(add_log)))
    /\ PopulateReturned => Flatten(add_log) = data

C1_Witness ==
    /\ PopulateReturned
    /\ Len(add_log) = 3
    /\ Len(add_log[1]) = BatchSize
    /\ Len(add_log[3]) = 1

CeilDiv(a, b) == (a + b - 1) \div b

\* C2: once populate_data has returned it has made exactly
\* ceil(n / batchSize) /additems calls, each carrying between 1 and
\* batchSize records.
C2_CeilBatchesNoneEmpty ==
    PopulateReturned =>
        /\ Len(add_log) = CeilDiv(Len(data), BatchSize)
        /\ \A b \in 1..Len(add_log) : Len(add_log[b]) \in 1..BatchSize

\* a JSON body that reports an error other than the transient denial
IsErrorResponse(r) == "Message" \in DOMAIN r /\ r.Message # "Access Denied"

\* C4: when an /additems call has returned an error other than Access
\* Denied, the run has failed: no later batch was submitted, no validation
\* request was made and the run is not on its way to completion.
C4_AddItemsErrorFailsRun ==
    \A b \in 1..Len(add_resps) :
        IsErrorResponse(add_resps[b]) =>
            /\ pc = "failed"
            /\ Len(add_log) = b
            /\ val_log = <<>>

HasCount(r) == "Count" \in DOMAIN r

MetadataFailed ==
    /\ HasCount(collection_details)
    /\ ~validate_collection_metadata(collection_details, fields, data).ok

FirstRowFailed ==
    /\ first_row_resp # None
    /\ compare_rows(data[1], first_row_resp) = "False"

LastRowFailed ==
    /\ last_row_resp # None
    /\ compare_rows(data[Len(data)], last_row_resp) = "False"

\* C5: the validation calls are /getcollectiondetails, /getitem for the
\* first record, /getitem for the last record, in this order; a failed
\* metadata check leaves no /getitem call, a failed first-row comparison
\* leaves no last-row call, and the exception raised is the one of the
\* first check that failed.
C5_ValidationOrderShortCircuits ==
    /\ Len(val_log) <= 3
    /\ \A v \in 1..Len(val_log) :
          val_log[v].url = <<"/getcollectiondetails", "/getitem", "/getitem">>[v]
    /\ Len(val_log) >= 2 => val_log[2].data.Key = data[1].Key
    /\ Len(val_log) >= 3 => val_log[3].data.Key = data[Len(data)].Key
    /\ MetadataFailed =>
          /\ Len(val_log) = 1
          /\ pc = "failed"
          /\ error = Exception("Exception",
                         validate_collection_metadata(collection_details, fields, data).msg)
    /\ FirstRowFailed =>
          /\ Len(val_log) = 2
          /\ pc = "failed"
          /\ error = Exception("Exception", <<"First row validation did not pass">>)
    /\ LastRowFailed =>
          /\ Len(val_log) = 3
          /\ pc = "failed"
          /\ error = Exception("Exception", <<"Last row validation did not pass">>)

C5_Witness ==
    /\ FirstRowFailed
    /\ Len(val_log) = 2
    /\ pc = "failed"
    /\ Len(data) > 1

\* C6: once /getcollectiondetails has reported a Count that differs from
\* the number of records, the run has failed with the count-mismatch
\* message, which carries the remote count and the local count, whatever
\* field list came with the Count.
C6_CountMismatchFails ==
    (HasCount(collection_details) /\ collection_details.Count # Len(data)) =>
        /\ pc = "failed"
        /\ error.exc = "Exception"
        /\ Len(error.args) = 5
        /\ error.args[1] = "Collection Item Count ("
        /\ error.args[2] = collection_details.Count
        /\ error.args[4] = Len(data)
        /\ Len(val_log) = 1

C6_Witness ==
    /\ HasCount(collection_details)
    /\ collection_details.Count = Len(data) - 1
    /\ collection_details.Fields = RemoteExact(fields)
    /\ Len(data) = BatchSize
    /\ pc = "failed"

\* C7: with zero records, a remote Count of 0 and matching fields,
\* validation succeeds: the run completes without an error and without a
\* /getitem call.
C7_EmptyDatasetValidates ==
    (/\ Len(data) = 0
     /\ HasCount(collection_details)
     /\ validate_collection_metadata(collection_details, fields, data).ok) =>
        /\ pc = "done"
        /\ error = None
        /\ Len(val_log) = 1

Terminated == pc \in {"done", "failed"}

\* C3: every run ends: the retry loop of attempt_request stops, whatever
\* the remote end answers, and the run completes or fails.
C3_RunTerminates == <>Terminated

\* C8: a number attribute compared with a remote attribute of the same name
\* and type matches exactly when the string forms are equal, or the local
\* string form ends in ".0" and the integer-truncated values are equal.
C8_NumberMatchRule ==
    (/\ pc = "compared"
     /\ resp.ItemFound
     /\ Len(data[1].Attributes) = 1
     /\ Len(resp.Item.Attributes) = 1
     /\ data[1].Attributes[1].Type = "number"
     /\ resp.Item.Attributes[1].Name = data[1].Attributes[1].Name
     /\ resp.Item.Attributes[1].Type = data[1].Attributes[1].Type) =>
        LET local == data[1].Attributes[1].Value
            remote == resp.Item.Attributes[1].Value
        IN  (result = "True") <=>
                \/ Str(local) = Str(remote)
                \/ /\ EndsWith(Str(local), <<".", "0">>)
                   /\ IntOf(local) = IntOf(remote)

\* the remote item has an attribute whose name no local attribute has
RemoteUnknown(item_row, response) ==
    \E c \in 1..Len(response.Item.Attributes) :
        \A a \in 1..Len(item_row.Attributes) :
            item_row.Attributes[a].Name # response.Item.Attributes[c].Name

\* some local attribute has no remote attribute matching it
LocalUnmatched(item_row, response) ==
    \E a \in 1..Len(item_row.Attributes) :
        \A c \in 1..Len(response.Item.Attributes) :
            AttrCompare(item_row.Attributes[a], response.Item.Attributes[c]) # "match"

\* C9: on an item that was found, compare_rows returns False exactly when
\* the remote item has an attribute of a name unknown locally or some local
\* attribute has no matching remote attribute, and True otherwise.
C9_MismatchRule ==
    (pc = "compared" /\ resp.ItemFound /\ result \in {"True", "False"}) =>
        ((result = "False") <=>
            (RemoteUnknown(data[1], resp) \/ LocalUnmatched(data[1], resp)))

\* get_data_items has returned
DatasetReturned == pc \notin {"start", "compare", "compared"}

NextNorm == GetDataItems

SpecNorm == Init /\ [][NextNorm]_vars

\* the Key values of the records
Keys(data_list) == {data_list[r].Key : r \in 1..Len(data_list)}

\* C12: get_data_items returns one record per source row, in row order (the
\* r-th record carries the key and the cells of the r-th row), and the keys
\* of the records are pairwise distinct.
C12_OneRecordPerRowDistinctKeys ==
    DatasetReturned =>
        /\ Len(data) = nrows
        /\ \A r \in 1..Len(data) :
              /\ data[r].Key = IntStr(r)
              /\ \A a \in 1..Len(data[r].Attributes) :
                    data[r].Attributes[a].Value =
                        SourceCell(r, data[r].Attributes[a].Name)
        /\ Cardinality(Keys(data)) = Len(data)

C12_Witness ==
    /\ pc = "auth"
    /\ nrows = BatchSize + 1
    /\ Len(data) = nrows
    /\ data[nrows].Key = <<"1", "0", "1">>

\* the type a local field counts as in the metadata check
CountsAs(type) == IF type = "datetime" THEN "date" ELSE type

\* the positions of the local fields, other than the index, that have no
\* remote field of the same name and type
Offending(flds, coll_fields) ==
    {f \in 1..Len(flds) :
        /\ flds[f].name # "index"
        /\ \A c \in 1..Len(coll_fields) :
              ~(/\ coll_fields[c].Name = flds[f].name
                /\ coll_fields[c].Type = CountsAs(flds[f].type))}

Least(S) == CHOOSE x \in S : \A y \in S : x <= y

\* C13: when the remote Count equals the number of records, the metadata
\* check passes exactly when no local field other than the index lacks a
\* remote field of the same name and type; otherwise the run fails with the
\* message that names the first such field in field order.
C13_FieldCheck ==
    (HasCount(collection_details) /\ collection_details.Count = Len(data)) =>
        LET bad == Offending(fields, collection_details.Fields)
        IN  IF bad = {}
            THEN \/ Len(val_log) >= 2
                 \/ Len(data) = 0 /\ pc = "failed" /\ error.exc = "IndexError"
            ELSE /\ pc = "failed"
                 /\ Len(val_log) = 1
                 /\ error.exc = "Exception"
                 /\ Len(error.args) = 3
                 /\ error.args[1] = "Not all Item Fields ("
                 /\ error.args[2].name = fields[Least(bad)].name

C13_Witness ==
    /\ HasCount(collection_details)
    /\ collection_details.Count = Len(data)
    /\ Len(data) > 0
    /\ Cardinality(Offending(fields, collection_details.Fields)) = 2
    /\ pc = "failed"
    /\ error.args[2].name = fields[2].name

\* a /getitem response that reports the item as not found
NotFound(r) == "ItemFound" \in DOMAIN r /\ r.ItemFound # TRUE

\* C14: when the /getitem response for the first or the last record reports
\* ItemFound as not true, compare_rows returns False without looking at any
\* attribute and the run is aborted with that row's validation error.
C14_ItemNotFoundFails ==
    /\ NotFound(first_row_resp) =>
          /\ pc = "failed"
          /\ result = "False"
          /\ error = Exception("Exception", <<"First row validation did not pass">>)
          /\ Len(val_log) = 2
    /\ NotFound(last_row_resp) =>
          /\ pc = "failed"
          /\ result = "False"
          /\ error = Exception("Exception", <<"Last row validation did not pass">>)
          /\ Len(val_log) = 3

C14_Witness ==
    /\ NotFound(last_row_resp)
    /\ "Item" \notin DOMAIN last_row_resp
    /\ pc = "failed"
    /\ Len(data) > 1

\* some local attribute has no remote attribute of its name and type
NoNameTypeMatch(item_row, response) ==
    \E a \in 1..Len(item_row.Attributes) :
        \A c \in 1..Len(response.Item.Attributes) :
            \/ response.Item.Attributes[c].Name # item_row.Attributes[a].Name
            \/ response.Item.Attributes[c].Type # item_row.Attributes[a].Type

\* C15: when some local attribute has no remote attribute with both its
\* name and its type, compare_rows returns False, whatever the values are.
C15_NameAndTypeRequired ==
    (pc = "compared" /\ resp.ItemFound /\ NoNameTypeMatch(data[1], resp)) =>
        result = "False"

\* the same name with another type and an equal value
C15_Witness ==
    /\ pc = "compared"
    /\ resp.ItemFound
    /\ Len(data[1].Attributes) = 1
    /\ Len(resp.Item.Attributes) = 1
    /\ resp.Item.Attributes[1].Name = data[1].Attributes[1].Name
    /\ resp.Item.Attributes[1].Type # data[1].Attributes[1].Type
    /\ resp.Item.Attributes[1].Value = data[1].Attributes[1].Value
    /\ result = "False"

\* C16: a date attribute compared with a remote attribute of the same name
\* and type matches exactly when the texts before the first "T" are equal.
C16_DatePortionRule ==
    (/\ pc = "compared"
     /\ resp.ItemFound
     /\ Len(data[1].Attributes) = 1
     /\ Len(resp.Item.Attributes) = 1
     /\ data[1].Attributes[1].Type = "date"
     /\ resp.Item.Attributes[1].Name = data[1].Attributes[1].Name
     /\ resp.Item.Attributes[1].Type = "date") =>
        ((result = "True") <=>
            SplitT0(data[1].Attributes[1].Value.s) =
                SplitT0(resp.Item.Attributes[1].Value.s))

\* same date, another time of day
C16_Witness ==
    /\ pc = "compared"
    /\ resp.ItemFound
    /\ Len(data[1].Attributes) = 1
    /\ Len(resp.Item.Attributes) = 1
    /\ data[1].Attributes[1].Type = "date"
    /\ resp.Item.Attributes[1].Name = data[1].Attributes[1].Name
    /\ resp.Item.Attributes[1].Type = "date"
    /\ data[1].Attributes[1].Value # resp.Item.Attributes[1].Value
    /\ result = "True"

\* the response is the transient denial
IsDenied(r) == "Message" \in DOMAIN r /\ r.Message = "Access Denied"

\* the validation calls that have returned
ValidationReturned ==
    (IF collection_details # None THEN 1 ELSE 0)
    + (IF first_row_resp # None THEN 1 ELSE 0)
    + (IF last_row_resp # None THEN 1 ELSE 0)

\* the calls of attempt_request that have been made and have not returned
\* (a call ended by an exception of the transport stays counted)
Outstanding ==
    (Len(add_log) - Len(add_resps)) + (Len(val_log) - ValidationReturned)

\* C17: the calls are strictly sequential: at most one call is outstanding
\* at any time; a batch is submitted only when every earlier batch has
\* returned a response that is not Access Denied; the first validation
\* request is made only when every batch has; and every /additems and
\* validation request is made with the token authentication returned.
C17_StrictlySequential ==
    /\ Outstanding \in {0, 1}
    /\ Outstanding = 1 => pc \in {"post", "check", "failed"}
    /\ pc \in {"post", "check"} => Outstanding = 1
    /\ Len(add_resps) \in {Len(add_log), Len(add_log) - 1}
    /\ \A b \in 1..Len(add_resps) : ~IsDenied(add_resps[b])
    /\ val_log # <<>> =>
          /\ Len(add_resps) = Len(add_log)
          /\ Flatten(add_log) = data
    /\ (add_log # <<>> \/ val_log # <<>>) => token = "token"
    /\ req # None => req.headers.Authorization = <<"Bearer ", "token">>

\* the third batch is being retried while two have returned
C17_Witness ==
    /\ pc = "post"
    /\ IsDenied(resp)
    /\ Len(add_log) = 3
    /\ Len(add_resps) = 2
    /\ val_log = <<>>

\* C18: against a remote end that answers Access Denied only finitely many
\* times in a row, every call of attempt_request returns (or raises) and the
\* run ends, completed or failed.
C18_RetryUntilSuccess ==
    /\ (pc = "post") ~> (pc \notin {"post", "check"})
    /\ <>Terminated

\* a request was denied, posted again and then answered
C18_Witness == pc = "check" /\ retried /\ ~IsDenied(resp)

\* a step of the while loop of attempt_request that posts again: from the
\* check of a response back to the post with no new call begun
PostsAgain ==
    /\ pc = "check"
    /\ pc' = "post"
    /\ add_log' = add_log
    /\ val_log' = val_log

\* the caller of attempt_request received resp as its result
Received ==
    /\ caller = "populate" => add_resps' = Append(add_resps, resp)
    /\ caller = "metadata" => collection_details' = resp
    /\ caller = "first" => first_row_resp' = resp
    /\ caller = "last" => last_row_resp' = resp

\* C19: attempt_request never returns an Access Denied response: it posts
\* again exactly when the response is Access Denied, with the url, headers
\* and body of the first attempt, and returns to its caller the first
\* response that is not Access Denied.
C19_ReturnsFirstNonDenied ==
    [][/\ PostsAgain => (IsDenied(resp) /\ req' = req /\ caller' = caller)
       /\ (pc = "check" /\ ~PostsAgain) => (~IsDenied(resp) /\ Received)
       /\ (pc = "check" /\ ~IsDenied(resp)) => ~PostsAgain
       /\ (pc = "post" /\ pc' = "check") => req' = req]_vars

\* /getcollectiondetails was denied, posted again and then answered with
\* the collection details
C19_Witness ==
    /\ pc = "check"
    /\ caller = "metadata"
    /\ retried
    /\ HasCount(resp)
    /\ req.url = "/getcollectiondetails"

\* the remote end answered no /additems request with an error: it took in
\* every batch it did not deny
EveryBatchApplied == \A b \in 1..Len(add_resps) : ~IsErrorResponse(add_resps[b])

\* C20: against a remote end that takes in every /additems batch it does
\* not deny and nothing of a batch it denies, once populate_data has
\* returned the collection holds exactly the dataset: one item per record,
\* under its key, with the attributes submitted, however many requests
\* were denied and posted again.
C20_RetriesDoNotChangeStore ==
    (PopulateReturned /\ EveryBatchApplied) => store = data

\* the last of three batches was denied and posted again, and
\* populate_data has returned
C20_Witness ==
    /\ pc = "validate"
    /\ retried
    /\ Len(add_log) = 3
    /\ EveryBatchApplied
    /\ store = data
    /\ Len(store) = MaxRecords

====
